---- MODULE Spec2Model ----
(***************************************************************************)
(* Model of scripts/make-gif.py: the frame loader, the canvas normaliser,  *)
(* the duration derivation and the two-plan pipeline driver.               *)
(*                                                                         *)
(* An image is a record [mode, width, height, px] where px maps every      *)
(* coordinate <<x, y>> (0-based, x across, y down) to a pixel: a 3-tuple   *)
(* <<r, g, b>> in mode "RGB", a 4-tuple <<r, g, b, a>> in mode "RGBA".     *)
(* A written GIF is recorded as the arguments handed to Image.save.        *)
(***************************************************************************)
EXTENDS Integers, Sequences, FiniteSets, TLC

VARIABLES
    SPEED,               \* the speed multiplier (make-gif.py line 10)
    frames_dir,          \* index |-> PNG file, for the frame files that exist
    durations,           \* derived full-plan durations (line 34)
    worktree_durations,  \* derived subrange durations (line 38)
    pc,                  \* position of the pipeline driver
    idx,                 \* position of load_frames in its index list
    images,              \* the list load_frames is building / has returned
    norm,                \* the list normalize returned inside save_gif
    out_dir,             \* file name |-> what this run saved under it
    stdout,              \* the lines printed so far
    exit_status          \* {} while running, {n} once exited with status n

vars == <<SPEED, frames_dir, durations, worktree_durations, pc, idx, images,
          norm, out_dir, stdout, exit_status>>

---------------------------------------------------------------------------
(* Bounds of the model *)

MaxSpeed == 3600     \* speeds 1..MaxSpeed; exceeds every base duration
MaxW == 2            \* image widths 1..MaxW
MaxH == 2            \* image heights 1..MaxH
MaxLen == 2          \* normalize is applied to sequences of 1..MaxLen images
NumPatterns == 3     \* pixel patterns 0..NumPatterns-1 of an input file
MaxMissing == 2      \* at most this many frame files are absent

---------------------------------------------------------------------------
(* Sequence helpers *)

SetMax(S) == CHOOSE m \in S : \A x \in S : x <= m

\* Python's max(a, b) on integers
max(a, b) == IF a >= b THEN a ELSE b

\* Python's list(range(a, b))
range(a, b) == [k \in 1..(b - a) |-> a + k - 1]

\* Python's s[1:]
Tail1(s) == SubSeq(s, 2, Len(s))

---------------------------------------------------------------------------
(* Duration derivation, lines 10-38 *)

base_durations ==
    <<2500, 1500, 2000, 3000, 2500, 1200, 1200, 3500, 2000,
      1500, 2500, 2000, 3000, 1200, 1200, 2000, 2000, 3500>>

FLOOR_MS == 50

DeriveNoFloor(d, s) == d \div s

DeriveNextSpeed(d, s) == max(FLOOR_MS, d \div (s + 1))

\* max(50, d // SPEED); // is floor division, \div on non-negative operands
Derive(d, s) == max(FLOOR_MS, d \div s)

\* [max(50, d // SPEED) for d in base_durations]
Durations(s) == [k \in DOMAIN base_durations |-> Derive(base_durations[k], s)]

WORKTREE_FRAMES == range(9, 14)

WorktreeDurationsZeroBased(durs) ==
    [k \in DOMAIN WORKTREE_FRAMES |-> durs[WORKTREE_FRAMES[k] + 1]]

\* [durations[i - 1] for i in WORKTREE_FRAMES]; Python's 0-based durations[i - 1]
\* is the 1-based durs[i]
WorktreeDurations(durs) ==
    [k \in DOMAIN WORKTREE_FRAMES |-> durs[WORKTREE_FRAMES[k]]]

---------------------------------------------------------------------------
(* The imaging operations the script calls *)

BACKGROUND == <<30, 30, 30>>

OPAQUE == 255

Coords(w, h) == (0..(w - 1)) \X (0..(h - 1))

\* the colour of a pixel: its r, g, b without the alpha
RGBOf(p) == SubSeq(p, 1, 3)

\* Image.convert(mode): RGBA -> RGB drops the alpha, RGB -> RGBA adds an
\* opaque alpha, a conversion to the image's own mode copies it
convert(img, mode) ==
    IF img.mode = mode THEN img
    ELSE IF mode = "RGB"
         THEN [img EXCEPT !.mode = "RGB",
                          !.px = [c \in DOMAIN img.px |-> RGBOf(img.px[c])]]
         ELSE [img EXCEPT !.mode = "RGBA",
                          !.px = [c \in DOMAIN img.px |-> Append(RGBOf(img.px[c]), OPAQUE)]]

\* Image.new('RGB', size, color)
new(mode, size, color) ==
    [mode |-> mode, width |-> size[1], height |-> size[2],
     px |-> [c \in Coords(size[1], size[2]) |-> color]]

InBox(c, img, box) ==
    /\ box[1] <= c[1] /\ c[1] < box[1] + img.width
    /\ box[2] <= c[2] /\ c[2] < box[2] + img.height

pasteMasked(canvas, img, box) ==
    [canvas EXCEPT !.px = [c \in DOMAIN canvas.px |->
        IF InBox(c, img, box)
           /\ (Len(img.px[<<c[1] - box[1], c[2] - box[2]>>]) = 3
               \/ img.px[<<c[1] - box[1], c[2] - box[2]>>][4] = OPAQUE)
        THEN RGBOf(img.px[<<c[1] - box[1], c[2] - box[2]>>])
        ELSE canvas.px[c]]]

\* canvas.paste(img, box) without a mask, on an RGB canvas: the source region
\* replaces the canvas pixels under it, its alpha is not looked at
paste(canvas, img, box) ==
    [canvas EXCEPT !.px = [c \in DOMAIN canvas.px |->
        IF InBox(c, img, box)
        THEN RGBOf(img.px[<<c[1] - box[1], c[2] - box[2]>>])
        ELSE canvas.px[c]]]

---------------------------------------------------------------------------
(* normalize, lines 52-63 *)

MaxWidthWider(imgs) == SetMax({imgs[k].width : k \in DOMAIN imgs}) + 1

\* max(img.width for img in images)
MaxWidth(imgs) == SetMax({imgs[k].width : k \in DOMAIN imgs})

MaxHeightFromWidth(imgs) == SetMax({imgs[k].width : k \in DOMAIN imgs})

\* max(img.height for img in images)
MaxHeight(imgs) == SetMax({imgs[k].height : k \in DOMAIN imgs})

MatchesTargetEither(img, max_w, max_h) == img.width = max_w \/ img.height = max_h

\* img.width == max_w and img.height == max_h
MatchesTarget(img, max_w, max_h) == img.width = max_w /\ img.height = max_h

normalize(imgs) ==
    LET max_w == MaxWidth(imgs)
        max_h == MaxHeight(imgs)
    IN  [k \in DOMAIN imgs |->
            IF MatchesTarget(imgs[k], max_w, max_h)
            THEN convert(imgs[k], "RGB")
            ELSE paste(new("RGB", <<max_w, max_h>>, BACKGROUND), imgs[k], <<0, 0>>)]

---------------------------------------------------------------------------
(* The input files *)

Colours == << <<30, 30, 30>>, <<255, 255, 255>>, <<0, 128, 255>> >>

Alphas == <<0, 255>>

Sizes == (1..MaxW) \X (1..MaxH)

Patterns == 0..(NumPatterns - 1)

\* a PNG file of the given size; the pattern fixes its channel layout (even:
\* with alpha, odd: without) and the colour and alpha of each pixel
PngFile(size, p) ==
    [mode |-> IF p % 2 = 0 THEN "RGBA" ELSE "RGB",
     width |-> size[1], height |-> size[2],
     px |-> [c \in Coords(size[1], size[2]) |->
               LET col == Colours[((c[1] + 2 * c[2] + p) % Len(Colours)) + 1]
                   a == Alphas[((c[1] + c[2] + (p \div 2)) % Len(Alphas)) + 1]
               IN  IF p % 2 = 0 THEN Append(col, a) ELSE col]]

PngFiles == {PngFile(size, p) : size \in Sizes, p \in Patterns}

\* Image.open(path).convert('RGBA')
Decoded(file) == convert(file, "RGBA")

---------------------------------------------------------------------------
(* Paths and printed lines *)

\* frames_dir / f'frame-{i}.png'
FramePath(i) == <<"frame-", i, ".png">>

DEMO_GIF == "demo.gif"

WORKTREE_GIF == "worktree.gif"

\* print(f'Speed: {SPEED}x')
SpeedLine(s) == <<"Speed: ", s, "x">>

MissingLinePrevious(i) == <<"Missing: ", FramePath(i - 1)>>

\* print(f'Missing: {path}')
MissingLine(i) == <<"Missing: ", FramePath(i)>>

\* print(f'  {path} ({w}x{h}, {len(norm)} frames, ...)'); the size in KB is the
\* encoder's and is left out
SummaryLine(path, frames) ==
    <<"  ", path, frames[1].width, "x", frames[1].height, Len(frames), " frames">>

\* path.exists()
exists(i) == i \in DOMAIN frames_dir

AllIndicesOfSubrange == range(1, Len(WORKTREE_FRAMES) + 1)

\* list(range(1, len(base_durations) + 1))
all_indices == range(1, Len(base_durations) + 1)

---------------------------------------------------------------------------
(* The pipeline driver, lines 81-90, with load_frames (41-49) and save_gif
   (66-78) inlined at their call sites *)

SuccessorSubsetFirst(p) ==
    CASE p = "start" -> "load_subset"
      [] p = "load_subset" -> "normalize_subset"
      [] p = "normalize_subset" -> "encode_subset"
      [] p = "encode_subset" -> "load_full"
      [] p = "load_full" -> "normalize_full"
      [] p = "normalize_full" -> "encode_full"
      [] p = "encode_full" -> "done"

\* program order of the module's statements
Successor(p) ==
    CASE p = "start" -> "load_full"
      [] p = "load_full" -> "normalize_full"
      [] p = "normalize_full" -> "encode_full"
      [] p = "encode_full" -> "load_subset"
      [] p = "load_subset" -> "normalize_subset"
      [] p = "normalize_subset" -> "encode_subset"
      [] p = "encode_subset" -> "done"

\* the module's statements up to the first load: lines 34, 38 and 81
Start ==
    /\ pc = "start"
    /\ durations' = Durations(SPEED)
    /\ worktree_durations' = WorktreeDurations(durations')
    /\ stdout' = Append(stdout, SpeedLine(SPEED))
    /\ pc' = Successor(pc)
    /\ idx' = 1
    /\ images' = <<>>
    /\ UNCHANGED <<SPEED, frames_dir, norm, out_dir, exit_status>>

\* one iteration of the loop of load_frames over `indices`
load_frames(here, indices) ==
    /\ pc = here
    /\ idx <= Len(indices)
    /\ LET i == indices[idx] IN
         IF ~exists(i)
         THEN /\ stdout' = Append(stdout, MissingLine(i))
              /\ exit_status' = {1}
              /\ pc' = "aborted"
              /\ UNCHANGED <<idx, images>>
         ELSE /\ images' = Append(images, Decoded(frames_dir[i]))
              /\ idx' = idx + 1
              /\ pc' = IF idx = Len(indices) THEN Successor(pc) ELSE pc
              /\ UNCHANGED <<stdout, exit_status>>
    /\ UNCHANGED <<SPEED, frames_dir, durations, worktree_durations, norm, out_dir>>

\* norm = normalize(images), line 67
save_gif_normalize(here) ==
    /\ pc = here
    /\ norm' = normalize(images)
    /\ pc' = Successor(pc)
    /\ UNCHANGED <<SPEED, frames_dir, durations, worktree_durations, idx, images,
                   out_dir, stdout, exit_status>>

\* norm[0].save(path, save_all=True, append_images=norm[1:], duration=durs,
\* loop=0, optimize=True) and the summary line, lines 68-78
save_gif_save(here, durs, path) ==
    /\ pc = here
    /\ out_dir' = (path :> [first |-> norm[1], append_images |-> Tail1(norm),
                            duration |-> durs, loop |-> 0]) @@ out_dir
    /\ stdout' = Append(stdout, SummaryLine(path, norm))
    /\ pc' = Successor(pc)
    /\ idx' = 1
    /\ images' = <<>>
    /\ exit_status' = IF pc' = "done" THEN {0} ELSE exit_status
    /\ UNCHANGED <<SPEED, frames_dir, durations, worktree_durations, norm>>

LoadFull == load_frames("load_full", all_indices)

NormalizeFull == save_gif_normalize("normalize_full")

EncodeFull == save_gif_save("encode_full", durations, DEMO_GIF)

LoadSubset == load_frames("load_subset", WORKTREE_FRAMES)

NormalizeSubset == save_gif_normalize("normalize_subset")

EncodeSubset == save_gif_save("encode_subset", worktree_durations, WORKTREE_GIF)

\* the frames of a saved file, in order
FramesOf(file) == <<file.first>> \o file.append_images

---------------------------------------------------------------------------
(* Initial states of a run *)

FrameIndices == 1..Len(base_durations)

\* every frame has size `base` except frame `a`, which has size `sa`
Capture(a, sa, base) ==
    [i \in FrameIndices |->
        PngFile(IF i = a THEN sa ELSE base, i % NumPatterns)]

MissingSets ==
    {M \in SUBSET FrameIndices : Cardinality(M) >= 1 /\ Cardinality(M) <= MaxMissing}

RunSpeeds == {1, 3}

\* nothing has run yet
Fresh ==
    /\ durations = <<>>
    /\ worktree_durations = <<>>
    /\ pc = "start"
    /\ idx = 1
    /\ images = <<>>
    /\ norm = <<>>
    /\ out_dir = <<>>
    /\ stdout = <<>>
    /\ exit_status = {}

\* all 18 frame files are there
InitComplete ==
    /\ Fresh
    /\ SPEED \in RunSpeeds
    /\ \E a \in FrameIndices, sa \in Sizes, base \in Sizes :
           frames_dir = Capture(a, sa, base)

\* some frame files are absent, the others are of the smallest size
InitIncomplete ==
    /\ Fresh
    /\ SPEED \in RunSpeeds
    /\ \E M \in MissingSets :
           frames_dir = [i \in FrameIndices \ M |-> Capture(1, <<1, 1>>, <<1, 1>>)[i]]

Init == InitComplete \/ InitIncomplete

Next ==
    \/ Start
    \/ LoadFull
    \/ NormalizeFull
    \/ EncodeFull
    \/ LoadSubset
    \/ NormalizeSubset
    \/ EncodeSubset

Spec == Init /\ [][Next]_vars

\* the script is one sequential process that runs until it exits
FairSpec == Spec /\ WF_vars(Next)

---------------------------------------------------------------------------
(* The duration derivation on its own: every speed 1..MaxSpeed *)

InitDur ==
    /\ Fresh
    /\ SPEED \in 1..MaxSpeed
    /\ frames_dir = Capture(1, <<1, 1>>, <<1, 1>>)

SpecDur == InitDur /\ [][Start]_vars

---------------------------------------------------------------------------
(* normalize on its own: every sequence of 1..MaxLen loaded images *)

LoadedImages == {Decoded(f) : f \in PngFiles}

InputSequences == UNION {[1..n -> LoadedImages] : n \in 1..MaxLen}

InitNorm ==
    /\ images \in InputSequences
    /\ pc = "normalize_call"
    /\ norm = <<>>
    /\ SPEED = 3
    /\ frames_dir = <<>>
    /\ durations = <<>>
    /\ worktree_durations = <<>>
    /\ idx = 1
    /\ out_dir = <<>>
    /\ stdout = <<>>
    /\ exit_status = {}

NormalizeCall ==
    /\ pc = "normalize_call"
    /\ norm' = normalize(images)
    /\ pc' = "normalize_return"
    /\ UNCHANGED <<SPEED, frames_dir, durations, worktree_durations, idx, images,
                   out_dir, stdout, exit_status>>

SpecNorm == InitNorm /\ [][NormalizeCall]_vars

---------------------------------------------------------------------------
(* Claims about the duration derivation, under SpecDur *)

\* q is the floor of b / s
IsFloorQuotient(q, b, s) == q * s <= b /\ b < (q + 1) * s

\* C3: for every speed s >= 1 and every position k of the 18-entry table, the
\* derived duration is the larger of 50 and the floor of base_durations[k] / s,
\* hence at least 50, also when s exceeds every base value.
C3_DerivedDurations ==
    pc # "start" =>
        /\ SPEED >= 1
        /\ DOMAIN durations = 1..18
        /\ \A k \in 1..18 :
              /\ durations[k] >= 50
              /\ \E q \in 0..base_durations[k] :
                    /\ IsFloorQuotient(q, base_durations[k], SPEED)
                    /\ durations[k] = (IF q >= 50 THEN q ELSE 50)

\* the speed exceeds every base value: every quotient is 0 and every duration 50
C3_Witness ==
    /\ pc = "load_full"
    /\ \A k \in 1..18 : SPEED > base_durations[k] /\ durations[k] = 50

\* C4: the subrange plan has as many durations as frame indices (5) and its k-th
\* duration is the full plan's derived duration at position 9, 10, 11, 12, 13.
C4_SubrangeDurations ==
    pc # "start" =>
        /\ Len(worktree_durations) = 5
        /\ Len(WORKTREE_FRAMES) = 5
        /\ \A k \in 1..5 :
              /\ WORKTREE_FRAMES[k] = 8 + k
              /\ worktree_durations[k] = durations[8 + k]

\* a speed at which the durations at 9..13 differ from those at 10..14
C4_Witness ==
    /\ pc = "load_full"
    /\ SPEED = 3
    /\ worktree_durations = <<666, 500, 833, 666, 1000>>

\* C8: at speed 1 every derived duration is the base duration at its position.
C8_SpeedOneIsBase ==
    (pc # "start" /\ SPEED = 1) =>
        /\ Len(durations) = Len(base_durations)
        /\ \A k \in 1..18 : durations[k] = base_durations[k]

C8_Witness ==
    /\ pc = "load_full"
    /\ SPEED = 1
    /\ durations[1] = 2500
    /\ durations[18] = 3500

---------------------------------------------------------------------------
(* Claims about normalize, under SpecNorm *)

\* the largest width and height among the images, stated without SetMax
IsMaxSize(imgs, w, h) ==
    /\ \A k \in DOMAIN imgs : imgs[k].width <= w /\ imgs[k].height <= h
    /\ \E k \in DOMAIN imgs : imgs[k].width = w
    /\ \E k \in DOMAIN imgs : imgs[k].height = h

\* out shows img at the origin: inside img's area the colours of img
ShowsAtOrigin(out, img) ==
    \A c \in DOMAIN img.px : c \in DOMAIN out.px /\ out.px[c] = RGBOf(img.px[c])

\* C5: normalize returns as many images as it was given, in the same order, each
\* exactly max input width by max input height, also for an input that matches
\* the maximum in one dimension only.
C5_EveryFrameHasMaxSize ==
    pc = "normalize_return" =>
        /\ Len(norm) = Len(images)
        /\ \E w \in 1..(MaxW + 1), h \in 1..(MaxH + 1) :
              /\ IsMaxSize(images, w, h)
              /\ \A k \in DOMAIN images :
                    /\ norm[k].width = w
                    /\ norm[k].height = h
                    /\ DOMAIN norm[k].px = Coords(w, h)
                    /\ ShowsAtOrigin(norm[k], images[k])

\* an input as wide as the widest but less high than the highest was padded
C5_Witness ==
    /\ pc = "normalize_return"
    /\ \E k \in DOMAIN images :
          /\ images[k].width = MaxWidth(images)
          /\ images[k].height < MaxHeight(images)
          /\ norm[k].height > images[k].height
          /\ norm[k].px[<<0, images[k].height>>] = BACKGROUND

\* C6: for an input smaller than the maximum size in at least one dimension, the
\* output has the input's colour at every pixel inside the input's area and the
\* background colour (30, 30, 30) at every other pixel of the canvas.
C6_PaddedRightAndBelow ==
    pc = "normalize_return" =>
        \A k \in DOMAIN images :
            (\E j \in DOMAIN images :
                images[k].width < images[j].width \/ images[k].height < images[j].height)
            => \A c \in DOMAIN norm[k].px :
                  norm[k].px[c] =
                      IF c[1] < images[k].width /\ c[2] < images[k].height
                      THEN <<images[k].px[c][1], images[k].px[c][2], images[k].px[c][3]>>
                      ELSE <<30, 30, 30>>

\* a padded input with a fully transparent pixel of a colour other than the
\* background's, kept in the output
C6_Witness ==
    /\ pc = "normalize_return"
    /\ \E k \in DOMAIN images :
          /\ images[k].width < norm[k].width
          /\ \E c \in DOMAIN images[k].px :
                /\ images[k].px[c][4] = 0
                /\ RGBOf(images[k].px[c]) # BACKGROUND
                /\ norm[k].px[c] = RGBOf(images[k].px[c])

SameSize(imgs) ==
    \A j, k \in DOMAIN imgs :
        imgs[j].width = imgs[k].width /\ imgs[j].height = imgs[k].height

\* C7: normalizing the result of normalize returns it unchanged in dimensions and
\* pixel colours, and a sequence whose images all have the maximum size keeps its
\* dimensions and colours.
C7_Idempotent ==
    pc = "normalize_return" =>
        /\ Len(normalize(norm)) = Len(norm)
        /\ \A k \in DOMAIN norm :
              /\ normalize(norm)[k].width = norm[k].width
              /\ normalize(norm)[k].height = norm[k].height
              /\ normalize(norm)[k].px = norm[k].px
        /\ SameSize(images) =>
              \A k \in DOMAIN images :
                  /\ norm[k].width = images[k].width
                  /\ norm[k].height = images[k].height
                  /\ DOMAIN norm[k].px = DOMAIN images[k].px
                  /\ ShowsAtOrigin(norm[k], images[k])

\* the first pass padded an image, the second finds every image at full size
C7_Witness ==
    /\ pc = "normalize_return"
    /\ Len(images) >= 2
    /\ ~SameSize(images)
    /\ SameSize(norm)
    /\ normalize(norm) = norm

---------------------------------------------------------------------------
(* Claims about a run of the pipeline, under Spec and FairSpec *)

\* the frame files absent from the source directory
Missing == (1..18) \ DOMAIN frames_dir

Written == DOMAIN out_dir

LastLine == stdout[Len(stdout)]

\* C1: when a frame file is absent, the run ends aborted with exit status 1, its
\* last printed line is 'Missing: ' with the path of an absent frame file, and no
\* output file is written at any point of the run.
C1_MissingFrameAborts ==
    /\ [](Missing # {} =>
            /\ Written = {}
            /\ pc # "done"
            /\ exit_status \in {{}, {1}}
            /\ exit_status = {1} <=> pc = "aborted"
            /\ pc = "aborted" =>
                  \E i \in Missing : LastLine = <<"Missing: ", <<"frame-", i, ".png">>>>)
    /\ (Missing # {}) ~> (pc = "aborted")

\* frames 7 and 12 are absent; the run stopped at frame 7
C1_Witness ==
    /\ Missing = {7, 12}
    /\ pc = "aborted"
    /\ exit_status = {1}
    /\ Len(images) = 6
    /\ LastLine = <<"Missing: ", <<"frame-", 7, ".png">>>>

\* the largest width and height among the frame files with the given indices
IsMaxFileSize(S, w, h) ==
    /\ \A i \in S : frames_dir[i].width <= w /\ frames_dir[i].height <= h
    /\ \E i \in S : frames_dir[i].width = w
    /\ \E i \in S : frames_dir[i].height = h

\* the saved file has one frame per index of `first..last`, in order, each of the
\* largest width and height among those frame files and showing its frame file
SavedFrom(file, first, last) ==
    /\ Len(FramesOf(file)) = last - first + 1
    /\ \E w \in 1..(MaxW + 1), h \in 1..(MaxH + 1) :
          /\ IsMaxFileSize(first..last, w, h)
          /\ \A k \in 1..(last - first + 1) :
                /\ FramesOf(file)[k].width = w
                /\ FramesOf(file)[k].height = h
                /\ ShowsAtOrigin(FramesOf(file)[k], frames_dir[first + k - 1])

\* C2: when all 18 frame files are present the run reaches done with exit status
\* 0, having written exactly demo.gif, from frames 1..18 at the maximum size over
\* 1..18, and worktree.gif, from frames 9..13 at the maximum size over 9..13.
C2_TwoOutputs ==
    /\ []((Missing = {} /\ pc = "done") =>
            /\ exit_status = {0}
            /\ Written = {"demo.gif", "worktree.gif"}
            /\ SavedFrom(out_dir["demo.gif"], 1, 18)
            /\ SavedFrom(out_dir["worktree.gif"], 9, 13))
    /\ (Missing = {}) ~> (pc = "done")

\* a finished run whose two outputs differ in size
C2_Witness ==
    /\ pc = "done"
    /\ Written = {"demo.gif", "worktree.gif"}
    /\ Len(FramesOf(out_dir["demo.gif"])) = 18
    /\ Len(FramesOf(out_dir["worktree.gif"])) = 5
    /\ out_dir["demo.gif"].first.width > out_dir["worktree.gif"].first.width

LinearOrder ==
    {<<"start", "load_full">>, <<"load_full", "load_full">>,
     <<"load_full", "normalize_full">>, <<"normalize_full", "encode_full">>,
     <<"encode_full", "load_subset">>, <<"load_subset", "load_subset">>,
     <<"load_subset", "normalize_subset">>, <<"normalize_subset", "encode_subset">>,
     <<"encode_subset", "done">>,
     <<"load_full", "aborted">>, <<"load_subset", "aborted">>}

SubsetStates == {"load_subset", "normalize_subset", "encode_subset", "done"}

\* C9: every step follows start -> load(full) -> normalize(full) -> encode(full)
\* -> load(subset) -> normalize(subset) -> encode(subset) -> done or leaves a load
\* step for aborted; the speed line is printed before any file is written,
\* demo.gif is written before the subset is loaded or written, a plan is encoded
\* only after all its frames were loaded and normalized, a file is written only by
\* its plan's encode step, and nothing happens after aborted.
C9_LinearPipeline ==
    [][/\ <<pc, pc'>> \in LinearOrder
       /\ pc # "aborted"
       /\ Written' # {} => (Len(stdout) >= 1 /\ stdout[1][1] = "Speed: ")
       /\ pc' \in SubsetStates => "demo.gif" \in Written'
       /\ "worktree.gif" \in Written' => (pc = "encode_subset" \/ pc = "done")
       /\ Written' # Written => pc \in {"encode_full", "encode_subset"}
       /\ pc' = "encode_full" => (Len(images') = 18 /\ Len(norm') = 18)
       /\ pc' = "encode_subset" => (Len(images') = 5 /\ Len(norm') = 5)
       /\ (Written' # Written /\ pc = "encode_full")
             => (Written' = {"demo.gif"} /\ Len(FramesOf(out_dir'["demo.gif"])) = 18)
       /\ (Written' # Written /\ pc = "encode_subset")
             => Len(FramesOf(out_dir'["worktree.gif"])) = 5
      ]_vars

\* the subset is about to be encoded, after demo.gif was written
C9_Witness ==
    /\ pc = "encode_subset"
    /\ Written = {"demo.gif"}
    /\ Len(norm) = 5
    /\ Len(stdout) = 2

\* C10: with an unchanging set of frame files the run aborts only from
\* load(full), never from load(subset); an aborted run has written no file, and
\* once demo.gif exists the run ends in done with worktree.gif written.
C10_AbortOnlyFromLoadFull ==
    /\ [][pc' = "aborted" => pc = "load_full"]_vars
    /\ [](pc = "aborted" => Written = {})
    /\ ("demo.gif" \in Written) ~> (pc = "done" /\ "worktree.gif" \in Written)

\* the subset is being loaded from frame files the full plan found present
C10_Witness ==
    /\ pc = "load_subset"
    /\ idx = 3
    /\ "demo.gif" \in Written
    /\ \A i \in 9..13 : i \in DOMAIN frames_dir

====
